---- MODULE Spec2Model ----
(***************************************************************************)
(* Model of ClusterDTester (clusterd_tester.py): one retained session      *)
(* object on which the caller invokes replay_xmlnews and                   *)
(* establish_and_validate_connection.  Texts and payloads are sequences of *)
(* one-character strings, so that startswith, slicing and concatenation    *)
(* are computed as Python computes them.  Exceptions are modelled by the   *)
(* name of their class; the transport (connect, sendall, recv) answers     *)
(* nondeterministically.                                                   *)
(***************************************************************************)
EXTENDS Integers, Sequences, FiniteSets, TLC

\* ------------------------------------------------------------------ bounds
MaxFiles == 2        \* most files a directory holds
MaxCalls == 2        \* most top-level calls made on the retained session
MaxTailLen == 2      \* longest generated suffix of a received text
MaxPayloadLen == 2   \* longest generated file content
MaxDuration == 1     \* largest elapsed time of one send_file

\* --------------------------------------------------------------- constants
success_prefix == <<"+", "R", "C", "L", "U", "S", "T", "E", "R">>
error_prefix == <<"-", "R", "C", "L", "U", "S", "T", "E", "R">>
init_response == <<"+", "R", "C", "L", "U", "S", "T", "E", "R", " ", "V", "e", "r", "s", "i", "o", "n", " ", "v", "1", ".", "1", "0">>
BUF == <<"B", "U", "F">>
Modes == {"fast", "detailed"}
None == 0

\* ------------------------------------------------------- string operations
\* str.startswith(prefix)
startswith(s, p) == Len(s) >= Len(p) /\ SubSeq(s, 1, Len(p)) = p

\* s[n:]
SliceFrom(s, n) == SubSeq(s, n + 1, Len(s))

\* sum(file_times)
RECURSIVE sum(_)
sum(s) == IF s = <<>> THEN 0 ELSE Head(s) + sum(Tail(s))

\* ------------------------------------------------------- inputs of the run
RECURSIVE SeqsUpTo(_, _)
SeqsUpTo(S, n) ==
  IF n = 0 THEN {<<>>}
  ELSE LET shorter == SeqsUpTo(S, n - 1)
       IN shorter \cup {Append(s, c) : s \in shorter, c \in S}

TailChars == {" ", "x"}
Tails == SeqsUpTo(TailChars, MaxTailLen)
Heads == { <<>>, success_prefix, error_prefix, init_response,
           SubSeq(success_prefix, 1, 8), SubSeq(success_prefix, 2, 9),
           <<" ">> \o init_response }
ExampleTexts ==
  { <<"+", "R", "C", "L", "U", "S", "T", "E", "R", " ", "O", "K">>,
    <<"-", "R", "C", "L", "U", "S", "T", "E", "R", " ", "(", "1", "0", "0", ")", " ", "S", "e", "r", "v", "i", "c", "e", " ", "U", "n", "a", "v", "a", "i", "l", "a", "b", "l", "e">>,
    <<"W", "r", "o", "n", "g", " ", "R", "e", "s", "p", "o", "n", "s", "e">> }
\* the texts sock.recv(1024).decode('utf-8') can yield
Texts == {h \o t : h \in Heads, t \in Tails} \cup ExampleTexts

PayloadBytes == {"B", "x"}
\* the contents file.read() can yield
Payloads == SeqsUpTo(PayloadBytes, MaxPayloadLen) \cup {BUF}

NoText == <<"<", "n", "o", "n", "e", ">">>
NoSummary == [success_file_count |-> -1, error_count |-> -1, total_time |-> -1, average |-> <<>>]

\* ------------------------------------------------------------------- state
VARIABLES
  mode,             \* self.mode
  sock,             \* self.sock: None or the id of a socket object
  closes,           \* closes[s]: number of close() calls on socket s
  validated,        \* validated[s]: the banner read on socket s was accepted
  calls,            \* top-level calls made so far
  call,             \* the top-level call in progress
  pc,               \* position within the call
  result,           \* how the last call ended: "returned" or the exception that left it
  handshake,        \* what establish_and_validate_connection did in this call
  serv_init_response, \* text read by validate_server_acknowledgment
  xml_files,        \* number of files count_xml_files returned
  i,                \* files the loop has gone through
  file_times,       \* replay_xmlnews: file_times
  error_count,      \* replay_xmlnews: error_count
  rdf_data,         \* send_rdf_data: contents of the file being exchanged
  wire,             \* argument of the sendall of the exchange in progress
  server_response,  \* process_server_response: text received
  verdict,          \* classification of the last response
  error_message,    \* process_server_response: extracted detail
  success_flag,     \* send_file: success_flag returned
  info_logged,      \* the "Success for ..." line was logged for the last file
  sendalls,         \* sendall calls made in this call
  recvs,            \* recv calls made in this call
  ok_replies,       \* responses of this call that start with success_prefix
  file_errors,      \* errors send_file logged and printed in this call
  fatal_reported,   \* "Initial connection failed" printed to stderr in this call
  summary,          \* the "Processed ..." line of this call
  time_taken,       \* send_file: elapsed time returned (0 while it runs)
  ops               \* socket operations of this call, in order

vars == << mode, sock, closes, validated, calls, call, pc, result, handshake,
           serv_init_response, xml_files, i, file_times, error_count, rdf_data,
           wire, server_response, verdict, error_message, success_flag,
           info_logged, sendalls, recvs, ok_replies, file_errors,
           fatal_reported, summary, time_taken, ops >>

sessionVars == << mode, sock, closes, validated >>
fileVars == << rdf_data, wire, server_response, verdict, error_message,
               success_flag, info_logged, time_taken >>
loopVars == << xml_files, i, file_times, error_count, ok_replies, file_errors, summary >>

\* __init__ (mode is asserted to be one of the two modes; sock starts as None)
Init ==
  /\ mode \in Modes
  /\ sock = None
  /\ closes = <<>>
  /\ validated = <<>>
  /\ calls = 0
  /\ call = "none"
  /\ pc = "idle"
  /\ result = "none"
  /\ handshake = "none"
  /\ serv_init_response = NoText
  /\ xml_files = 0
  /\ i = 0
  /\ file_times = <<>>
  /\ error_count = 0
  /\ rdf_data = <<>>
  /\ wire = NoText
  /\ server_response = NoText
  /\ verdict = "none"
  /\ error_message = NoText
  /\ success_flag = FALSE
  /\ info_logged = FALSE
  /\ sendalls = 0
  /\ recvs = 0
  /\ ok_replies = 0
  /\ file_errors = 0
  /\ fatal_reported = FALSE
  /\ summary = NoSummary
  /\ time_taken = 0
  /\ ops = <<>>

\* ------------------------------------------------------- exception clauses
\* send_file: except (ConnectionError, NoAcknowledgmentError, ServerResponseError);
\* ConnectionError is the class defined in this module, not the built-in one
send_file_catches(exc) ==
  exc \in {"ConnectionError", "NoAcknowledgmentError", "ServerResponseError"}

\* replay_xmlnews: except (ConnectionError, NoAcknowledgmentError)
replay_xmlnews_catches(exc) ==
  exc \in {"ConnectionError", "NoAcknowledgmentError"}

\* mutant: the banner is accepted when it merely starts with the success prefix
Acknowledged_by_prefix(text) == startswith(text, success_prefix)

\* mutant: the banner is compared after trailing blanks are trimmed
Acknowledged_trimmed(text) ==
  \E n \in 0..Len(text) :
     /\ SubSeq(text, 1, n) = init_response
     /\ \A k \in (n + 1)..Len(text) : text[k] = " "

\* validate_server_acknowledgment: the comparison that accepts the banner
Acknowledged(text) == ~(text # init_response)

\* mutant: the payload is sent with a terminator after the contents
Framed_terminated(data) == (BUF \o data) \o <<";">>

\* send_rdf_data: the argument of sendall
Framed(data) == BUF \o data

\* mutant: the detail is cut after the prefix only, keeping the separator
ErrorDetail_after_prefix(text) == SliceFrom(text, Len(error_prefix))

\* process_server_response: the detail cut out of an error response
ErrorDetail(text) == SliceFrom(text, Len(error_prefix \o <<" ">>))

\* mutant: a response with neither prefix is ignored instead of raised
process_server_response_lenient(m, text) ==
  IF startswith(text, success_prefix) /\ m = "detailed"
  THEN [raised |-> "none", verdict |-> "Success", logged |-> TRUE,
        error_message |-> NoText]
  ELSE IF startswith(text, error_prefix)
  THEN [raised |-> "ServerResponseError", verdict |-> "Failure", logged |-> FALSE,
        error_message |-> ErrorDetail(text)]
  ELSE [raised |-> "none", verdict |-> "Unexpected", logged |-> FALSE,
        error_message |-> NoText]

\* process_server_response, after the recv: what the if/elif/else does
process_server_response(m, text) ==
  IF startswith(text, success_prefix) /\ m = "detailed"
  THEN [raised |-> "none", verdict |-> "Success", logged |-> TRUE,
        error_message |-> NoText]
  ELSE IF startswith(text, error_prefix)
  THEN [raised |-> "ServerResponseError", verdict |-> "Failure", logged |-> FALSE,
        error_message |-> ErrorDetail(text)]
  ELSE [raised |-> "ServerResponseError", verdict |-> "Unexpected", logged |-> FALSE,
        error_message |-> NoText]

\* a socket operation on a closed socket object raises OSError
IsClosed(s) == s # None /\ closes[s] > 0

\* one socket operation: its kind, the socket object (None: a socket that was
\* never stored), the file it belongs to (0: the handshake) and whether the
\* socket had been closed before
Op(kind, s, f) == [op |-> kind, s |-> s, f |-> f, closed |-> IsClosed(s)]

\* ----------------------------------------------------------------- actions
ResetCall ==
  /\ result' = "none"
  /\ handshake' = "none"
  /\ serv_init_response' = NoText
  /\ xml_files' = 0
  /\ i' = 0
  /\ file_times' = <<>>
  /\ error_count' = 0
  /\ rdf_data' = <<>>
  /\ wire' = NoText
  /\ server_response' = NoText
  /\ verdict' = "none"
  /\ error_message' = NoText
  /\ success_flag' = FALSE
  /\ info_logged' = FALSE
  /\ sendalls' = 0
  /\ recvs' = 0
  /\ ok_replies' = 0
  /\ file_errors' = 0
  /\ fatal_reported' = FALSE
  /\ summary' = NoSummary
  /\ time_taken' = 0
  /\ ops' = <<>>

\* the caller invokes tester.replay_xmlnews(directory)
Call_replay_xmlnews ==
  /\ pc = "idle"
  /\ calls < MaxCalls
  /\ calls' = calls + 1
  /\ call' = "replay"
  /\ pc' = "establish"
  /\ ResetCall
  /\ UNCHANGED sessionVars

\* the caller invokes tester.establish_and_validate_connection()
Call_establish_and_validate_connection ==
  /\ pc = "idle"
  /\ calls < MaxCalls
  /\ calls' = calls + 1
  /\ call' = "establish"
  /\ pc' = "establish"
  /\ ResetCall
  /\ UNCHANGED sessionVars

\* an exception leaves establish_and_validate_connection: replay_xmlnews
\* catches it or lets it through; a direct call hands it to the caller
RaiseFromEstablish(exc) ==
  IF call = "replay" /\ replay_xmlnews_catches(exc)
  THEN pc' = "except" /\ result' = result
  ELSE pc' = "idle" /\ result' = exc

\* establish_and_validate_connection returned normally
ReturnFromEstablish ==
  IF call = "replay"
  THEN pc' = "count" /\ result' = result
  ELSE pc' = "idle" /\ result' = "returned"

\* mutant: a session that holds a socket connects again
establish_reconnects ==
  /\ pc = "establish"
  /\ sock # None
  /\ closes' = Append(closes, 0)
  /\ validated' = Append(validated, FALSE)
  /\ sock' = Len(closes) + 1
  /\ ops' = Append(ops, [op |-> "connect", s |-> Len(closes) + 1, f |-> 0,
                         closed |-> FALSE])
  /\ pc' = "validate"
  /\ UNCHANGED << mode, calls, call, result, handshake, serv_init_response,
                  fileVars, loopVars, sendalls, recvs, fatal_reported >>

\* establish_and_validate_connection with self.sock set: nothing is done
establish_skip ==
  /\ pc = "establish"
  /\ sock # None
  /\ handshake' = "skipped"
  /\ ReturnFromEstablish
  /\ UNCHANGED << sessionVars, calls, call, serv_init_response, fileVars,
                  loopVars, sendalls, recvs, fatal_reported, ops >>

\* establish_connection: socket(), settimeout(10), connect() succeed and the
\* new socket is stored in self.sock
establish_connection_ok ==
  /\ pc = "establish"
  /\ sock = None
  /\ closes' = Append(closes, 0)
  /\ validated' = Append(validated, FALSE)
  /\ sock' = Len(closes) + 1
  /\ ops' = Append(ops, [op |-> "connect", s |-> Len(closes) + 1, f |-> 0,
                         closed |-> FALSE])
  /\ pc' = "validate"
  /\ UNCHANGED << mode, calls, call, result, handshake, serv_init_response,
                  fileVars, loopVars, sendalls, recvs, fatal_reported >>

\* establish_connection: socket.error is turned into ConnectionError and
\* self.sock is not assigned
establish_connection_fail ==
  /\ pc = "establish"
  /\ sock = None
  /\ handshake' = "ConnectionError"
  /\ ops' = Append(ops, Op("connect", None, 0))
  /\ RaiseFromEstablish("ConnectionError")
  /\ UNCHANGED << sessionVars, calls, call, serv_init_response, fileVars,
                  loopVars, sendalls, recvs, fatal_reported >>

\* validate_server_acknowledgment: recv returns a text
validate_server_acknowledgment ==
  /\ pc = "validate"
  /\ \E text \in Texts :
       /\ serv_init_response' = text
       /\ recvs' = recvs + 1
       /\ ops' = Append(ops, Op("recv", sock, 0))
       /\ IF Acknowledged(text)
          THEN /\ validated' = [validated EXCEPT ![sock] = TRUE]
               /\ handshake' = "ok"
               /\ ReturnFromEstablish
          ELSE /\ validated' = validated
               /\ handshake' = "NoAcknowledgmentError"
               /\ RaiseFromEstablish("NoAcknowledgmentError")
  /\ UNCHANGED << mode, sock, closes, calls, call, fileVars, loopVars,
                  sendalls, fatal_reported >>

\* validate_server_acknowledgment: recv times out or fails (OSError)
validate_recv_error ==
  /\ pc = "validate"
  /\ recvs' = recvs + 1
  /\ ops' = Append(ops, Op("recv", sock, 0))
  /\ handshake' = "OSError"
  /\ RaiseFromEstablish("OSError")
  /\ UNCHANGED << sessionVars, calls, call, serv_init_response, fileVars,
                  loopVars, sendalls, fatal_reported >>

\* replay_xmlnews, the except block: log, print to stderr, self.sock.close(),
\* return; close() on None raises AttributeError
replay_except ==
  /\ pc = "except"
  /\ fatal_reported' = TRUE
  /\ IF sock = None
     THEN /\ result' = "AttributeError"
          /\ closes' = closes
          /\ ops' = ops
     ELSE /\ result' = "returned"
          /\ closes' = [closes EXCEPT ![sock] = @ + 1]
          /\ ops' = Append(ops, Op("close", sock, 0))
  /\ pc' = "idle"
  /\ UNCHANGED << mode, sock, validated, calls, call, handshake,
                  serv_init_response, fileVars, loopVars, sendalls, recvs >>

\* count_xml_files: the directory listing
count_xml_files ==
  /\ pc = "count"
  /\ \E n \in 0..MaxFiles : xml_files' = n
  /\ pc' = "loop"
  /\ UNCHANGED << sessionVars, calls, call, result, handshake,
                  serv_init_response, fileVars, i, file_times, error_count,
                  ok_replies, file_errors, summary, sendalls, recvs,
                  fatal_reported, ops >>

\* mutant: a file whose exchange failed is sent again
FinishFile_retries(exc, d) ==
  IF exc = "none"
  THEN /\ success_flag' = TRUE
       /\ time_taken' = d
       /\ file_times' = Append(file_times, d)
       /\ UNCHANGED << error_count, file_errors, result >>
       /\ i' = i + 1
       /\ pc' = "loop"
  ELSE IF send_file_catches(exc)
  THEN /\ success_flag' = FALSE
       /\ time_taken' = d
       /\ error_count' = error_count + 1
       /\ file_errors' = file_errors + 1
       /\ UNCHANGED << file_times, result, i >>
       /\ pc' = "loop"
  ELSE /\ success_flag' = FALSE
       /\ result' = exc
       /\ pc' = "idle"
       /\ UNCHANGED << file_times, error_count, file_errors, i, time_taken >>

\* mutant: after a classification error the response is read once more
FinishFile_reads_again(exc, d) ==
  IF exc = "none"
  THEN /\ success_flag' = TRUE
       /\ time_taken' = d
       /\ file_times' = Append(file_times, d)
       /\ UNCHANGED << error_count, file_errors, result >>
       /\ i' = i + 1
       /\ pc' = "loop"
  ELSE IF send_file_catches(exc)
  THEN /\ success_flag' = FALSE
       /\ time_taken' = d
       /\ UNCHANGED << file_times, result, i, error_count, file_errors >>
       /\ pc' = "process"
  ELSE /\ success_flag' = FALSE
       /\ result' = exc
       /\ pc' = "idle"
       /\ UNCHANGED << file_times, error_count, file_errors, i, time_taken >>

\* send_file ends with exception exc ("none": no exception) after d seconds
\* (success_flag starts as False and becomes True only after both halves),
\* and the loop body of replay_xmlnews records the outcome
FinishFile(exc, d) ==
  IF exc = "none"
  THEN /\ success_flag' = TRUE
       /\ time_taken' = d
       /\ file_times' = Append(file_times, d)
       /\ UNCHANGED << error_count, file_errors, result >>
       /\ i' = i + 1
       /\ pc' = "loop"
  ELSE IF send_file_catches(exc)
  THEN /\ success_flag' = FALSE
       /\ time_taken' = d
       /\ error_count' = error_count + 1
       /\ file_errors' = file_errors + 1
       /\ UNCHANGED << file_times, result >>
       /\ i' = i + 1
       /\ pc' = "loop"
  ELSE /\ success_flag' = FALSE
       /\ result' = exc
       /\ pc' = "idle"
       /\ UNCHANGED << file_times, error_count, file_errors, i, time_taken >>

\* send_file, first half: send_rdf_data reads the file and calls sendall once
send_rdf_data ==
  /\ pc = "loop"
  /\ i < xml_files
  /\ \E data \in Payloads, delivered \in BOOLEAN :
       /\ rdf_data' = data
       /\ wire' = Framed(data)
       /\ sendalls' = sendalls + 1
       /\ ops' = Append(ops, Op("sendall", sock, i + 1))
       /\ server_response' = NoText
       /\ verdict' = "none"
       /\ error_message' = NoText
       /\ info_logged' = FALSE
       /\ IF delivered /\ ~IsClosed(sock)
          THEN /\ pc' = "process"
               /\ success_flag' = FALSE
               /\ time_taken' = 0
               /\ UNCHANGED << file_times, error_count, file_errors, result, i >>
          ELSE FinishFile("OSError", 0)
  /\ UNCHANGED << sessionVars, calls, call, handshake, serv_init_response,
                  xml_files, ok_replies, summary, recvs, fatal_reported >>

\* mutant: a failed exchange closes the connection
send_file_response_closes_on_failure ==
  /\ pc = "process"
  /\ \E text \in Texts, d \in 0..MaxDuration :
       LET r == process_server_response(mode, text) IN
       /\ server_response' = text
       /\ recvs' = recvs + 1
       /\ ops' = Append(ops, Op("recv", sock, i + 1))
       /\ rdf_data' = <<>>
       /\ wire' = NoText
       /\ ok_replies' = ok_replies + (IF startswith(text, success_prefix) THEN 1 ELSE 0)
       /\ verdict' = r.verdict
       /\ error_message' = r.error_message
       /\ info_logged' = r.logged
       /\ closes' = IF r.raised = "none" THEN closes
                    ELSE [closes EXCEPT ![sock] = @ + 1]
       /\ FinishFile(r.raised, d)
  /\ UNCHANGED << mode, sock, validated, calls, call, handshake,
                  serv_init_response, xml_files, summary, sendalls,
                  fatal_reported >>

\* send_file, second half: process_server_response receives and classifies
send_file_response ==
  /\ pc = "process"
  /\ \E text \in Texts, d \in 0..MaxDuration :
       LET r == process_server_response(mode, text) IN
       /\ server_response' = text
       /\ recvs' = recvs + 1
       /\ ops' = Append(ops, Op("recv", sock, i + 1))
       /\ rdf_data' = <<>>
       /\ wire' = NoText
       /\ ok_replies' = ok_replies + (IF startswith(text, success_prefix) THEN 1 ELSE 0)
       /\ verdict' = r.verdict
       /\ error_message' = r.error_message
       /\ info_logged' = r.logged
       /\ FinishFile(r.raised, d)
  /\ UNCHANGED << sessionVars, calls, call, handshake, serv_init_response,
                  xml_files, summary, sendalls, fatal_reported >>

\* send_file, second half: recv times out or fails (OSError)
send_file_recv_error ==
  /\ pc = "process"
  /\ recvs' = recvs + 1
  /\ ops' = Append(ops, Op("recv", sock, i + 1))
  /\ rdf_data' = <<>>
  /\ wire' = NoText
  /\ server_response' = NoText
  /\ verdict' = "none"
  /\ FinishFile("OSError", 0)
  /\ UNCHANGED << sessionVars, calls, call, handshake, serv_init_response,
                  xml_files, summary, sendalls, fatal_reported,
                  ok_replies, error_message, info_logged >>

\* mutant: the average is computed whatever the number of successes
replay_summary_always_averages ==
  /\ pc = "loop"
  /\ i = xml_files
  /\ summary' = [success_file_count |-> Len(file_times),
                 error_count |-> error_count,
                 total_time |-> sum(file_times),
                 average |-> <<sum(file_times), Len(file_times)>>]
  /\ closes' = [closes EXCEPT ![sock] = @ + 1]
  /\ ops' = Append(ops, Op("close", sock, 0))
  /\ result' = "returned"
  /\ pc' = "idle"
  /\ UNCHANGED << mode, sock, validated, calls, call, handshake,
                  serv_init_response, fileVars, xml_files, i, file_times,
                  error_count, ok_replies, file_errors, sendalls, recvs,
                  fatal_reported >>

\* replay_xmlnews after the loop: the summary lines, then self.sock.close()
replay_summary ==
  /\ pc = "loop"
  /\ i = xml_files
  /\ LET total_time == sum(file_times)
         success_file_count == Len(file_times)
     IN summary' = [success_file_count |-> success_file_count,
                    error_count |-> error_count,
                    total_time |-> total_time,
                    average |-> IF success_file_count > 0
                                THEN <<total_time, Len(file_times)>>
                                ELSE <<>>]
  /\ closes' = [closes EXCEPT ![sock] = @ + 1]
  /\ ops' = Append(ops, Op("close", sock, 0))
  /\ result' = "returned"
  /\ pc' = "idle"
  /\ UNCHANGED << mode, sock, validated, calls, call, handshake,
                  serv_init_response, fileVars, xml_files, i, file_times,
                  error_count, ok_replies, file_errors, sendalls, recvs,
                  fatal_reported >>

Next ==
  \/ Call_replay_xmlnews
  \/ Call_establish_and_validate_connection
  \/ establish_skip
  \/ establish_connection_ok
  \/ establish_connection_fail
  \/ validate_server_acknowledgment
  \/ validate_recv_error
  \/ replay_except
  \/ count_xml_files
  \/ send_rdf_data
  \/ send_file_response
  \/ send_file_recv_error
  \/ replay_summary

Spec == Init /\ [][Next]_vars

\* every variable stays within its type
TypeOK ==
  /\ mode \in Modes
  /\ sock \in 0..Len(closes)
  /\ Len(closes) = Len(validated)
  /\ calls \in 0..MaxCalls
  /\ call \in {"none", "replay", "establish"}
  /\ pc \in {"idle", "establish", "validate", "except", "count", "loop", "process"}
  /\ i \in 0..xml_files
  /\ xml_files \in 0..MaxFiles
  /\ Len(file_times) + error_count <= i

\* ------------------------------------------------------------------ claims
\* a call of replay_xmlnews has ended (returned or left by an exception)
ReplayEnded == call = "replay" /\ pc = "idle"

\* a response has been received and classified for the current file
Answered == server_response # NoText

\* C1: in a run whose handshake succeeds, the summary's success count is the
\* number of files whose response starts with "+RCLUSTER" and its error count
\* is the number of the other files, in either mode.
C1_SummaryCountsSuccessReplies ==
  (call = "replay" /\ handshake = "ok" /\ summary # NoSummary) =>
     /\ summary.success_file_count = ok_replies
     /\ summary.error_count = xml_files - ok_replies

\* C2: a response that starts with "+RCLUSTER" is classified as Success and
\* send_file returns a true flag, in either mode; the mode only decides
\* whether the informational line is logged.
C2_SuccessPrefixIsSuccess ==
  (Answered /\ startswith(server_response, success_prefix)) =>
     /\ verdict = "Success"
     /\ success_flag = TRUE
     /\ info_logged = (mode = "detailed")

\* C3: no fault during one file's exchange ends replay_xmlnews early: a run
\* whose handshake succeeded returns after every discovered file was attempted
\* and the summary was emitted, and each faulted file counts as one error.
C3_FileFaultsNeverAbortRun ==
  (ReplayEnded /\ handshake = "ok") =>
     /\ result = "returned"
     /\ i = xml_files
     /\ summary # NoSummary
     /\ summary.success_file_count + summary.error_count = xml_files

\* C4: a run of replay_xmlnews ends with every socket it opened closed exactly
\* once, on every exit path, and never fails while trying to close.
C4_ClosedExactlyOnce ==
  (ReplayEnded /\ calls = 1) =>
     /\ result # "AttributeError"
     /\ \A s \in 1..Len(closes) : closes[s] = 1

\* C5: when connect fails, no banner is read, no file is sent, no summary is
\* produced, the failure is reported on the error stream and replay_xmlnews
\* terminates normally.
C5_ConnectFailureEndsRunNormally ==
  (ReplayEnded /\ handshake = "ConnectionError") =>
     /\ recvs = 0
     /\ sendalls = 0
     /\ summary = NoSummary
     /\ fatal_reported
     /\ result = "returned"

\* C6: when the text received on a fresh connection differs from the expected
\* banner, replay_xmlnews aborts at once with NoAcknowledgmentError: no sendall
\* is performed, no file is attempted and no summary is logged.
C6_BannerMismatchAbortsRun ==
  (call = "replay" /\ serv_init_response # NoText
                   /\ serv_init_response # init_response) =>
     /\ handshake = "NoAcknowledgmentError"
     /\ pc \in {"except", "idle"}
     /\ sendalls = 0
     /\ i = 0
     /\ summary = NoSummary
     /\ (pc = "idle" => fatal_reported /\ result = "returned")

C6_Witness ==
  /\ ReplayEnded
  /\ serv_init_response = <<"W", "r", "o", "n", "g", " ", "R", "e", "s", "p", "o", "n", "s", "e">>
  /\ handshake = "NoAcknowledgmentError"
  /\ fatal_reported
  /\ sendalls = 0

\* C7: the handshake is accepted exactly when the received text equals the
\* expected banner, character for character: equal texts return normally
\* and mark the connection validated, every other text raises
\* NoAcknowledgmentError.
C7_BannerAcceptedIffEqual ==
  (serv_init_response # NoText) =>
     /\ (handshake = "ok") = (serv_init_response = init_response)
     /\ (handshake = "NoAcknowledgmentError") = (serv_init_response # init_response)
     /\ validated[sock] = (serv_init_response = init_response)
     /\ (call = "establish" /\ serv_init_response = init_response => result = "returned")
     /\ (call = "establish" /\ serv_init_response # init_response
           => result = "NoAcknowledgmentError")

C7_Witness ==
  /\ call = "establish"
  /\ serv_init_response = init_response \o <<" ">>
  /\ result = "NoAcknowledgmentError"
  /\ ~validated[sock]

\* C8: each file is put on the wire by one sendall whose argument is the three
\* bytes "BUF" followed by the file's contents, unchanged.
C8_WireIsBufPlusContents ==
  /\ (wire # NoText =>
        /\ Len(wire) = 3 + Len(rdf_data)
        /\ SubSeq(wire, 1, 3) = <<"B", "U", "F">>
        /\ SubSeq(wire, 4, Len(wire)) = rdf_data)
  /\ (pc = "process" => sendalls = i + 1)
  /\ (pc = "loop" => sendalls = i)

C8_Witness ==
  /\ pc = "process"
  /\ rdf_data = <<"B", "U", "F">>
  /\ wire = <<"B", "U", "F", "B", "U", "F">>
  /\ sendalls = 2

\* C9 as stated: every response that starts with "-RCLUSTER" is a Failure with
\* a false flag, and the response is "-RCLUSTER " followed by the detail.
C9_DetailFollowsPrefixAndSpace ==
  (Answered /\ startswith(server_response, error_prefix)) =>
     /\ verdict = "Failure"
     /\ success_flag = FALSE
     /\ server_response = (error_prefix \o <<" ">>) \o error_message

\* C9 amended: every response that starts with "-RCLUSTER" is a Failure with a
\* false flag, and the detail is the response without its first ten
\* characters; this is the text following "-RCLUSTER " whenever the response
\* starts with "-RCLUSTER " (prefix and one space).
C9_DetailDropsTenCharacters ==
  (Answered /\ startswith(server_response, error_prefix)) =>
     /\ verdict = "Failure"
     /\ success_flag = FALSE
     /\ Len(error_message) = (IF Len(server_response) > 10
                              THEN Len(server_response) - 10 ELSE 0)
     /\ \A k \in 1..Len(error_message) : error_message[k] = server_response[k + 10]
     /\ (startswith(server_response, error_prefix \o <<" ">>)
           => server_response = (error_prefix \o <<" ">>) \o error_message)

C9_Witness ==
  /\ server_response = <<"-", "R", "C", "L", "U", "S", "T", "E", "R", " ", "(", "1", "0", "0", ")", " ", "S", "e", "r", "v", "i", "c", "e", " ", "U", "n", "a", "v", "a", "i", "l", "a", "b", "l", "e">>
  /\ error_message = <<"(", "1", "0", "0", ")", " ", "S", "e", "r", "v", "i", "c", "e", " ", "U", "n", "a", "v", "a", "i", "l", "a", "b", "l", "e">>
  /\ verdict = "Failure"
  /\ success_flag = FALSE
  /\ error_count = 1

\* C10: a response is reported as "Unexpected response" exactly when it starts
\* with neither "+RCLUSTER" nor "-RCLUSTER".
C10_UnexpectedIffNeitherPrefix ==
  Answered =>
     ((verdict = "Unexpected") =
        (~startswith(server_response, success_prefix)
           /\ ~startswith(server_response, error_prefix)))

\* C11: the summary's total is the sum of the durations of the successful
\* transfers only (a duration enters file_times only with a true success flag),
\* the average is that total over the success count, and with zero successes
\* no average is computed or logged.
C11_TotalAndAverageOverSuccesses ==
  /\ [](summary # NoSummary =>
          /\ summary.success_file_count = Len(file_times)
          /\ summary.success_file_count + error_count = i
          /\ summary.total_time = sum(file_times)
          /\ (summary.success_file_count > 0 =>
                summary.average = <<summary.total_time, summary.success_file_count>>)
          /\ (summary.success_file_count = 0 =>
                summary.average = <<>> /\ summary.total_time = 0))
  /\ [][(file_times' # file_times /\ file_times' # <<>>) =>
          (success_flag' /\ file_times' = Append(file_times, time_taken'))]_vars

C11_Witness ==
  /\ summary # NoSummary
  /\ summary.success_file_count = 1
  /\ summary.error_count = 1
  /\ summary.total_time = 1
  /\ summary.average = <<1, 1>>
  /\ time_taken = 1
  /\ success_flag = FALSE

\* C12: every sendall is made on a connection whose banner was validated
\* before, whatever calls were made on the session.
C12_SendOnlyOnValidatedConnection ==
  /\ (pc = "process" => validated[sock])
  /\ \A k \in 1..Len(ops) :
        (ops[k].op = "sendall" /\ k < Len(ops)) => validated[ops[k].s]

\* C13: between calls self.sock is set only if the banner read on that
\* connection was accepted; after a failed connect or a rejected banner it is
\* None.
C13_HandlePresentOnlyIfValidated ==
  pc = "idle" =>
     /\ (sock # None => validated[sock])
     /\ (handshake \in {"ConnectionError", "NoAcknowledgmentError"} => sock = None)

\* the sendall operations among a sequence of socket operations
IsSendall(o) == o.op = "sendall"

\* the operations of the file exchanges (not of the handshake or the close)
IsFileOp(o) == o.f > 0

\* C14: a run that reaches the summary attempted every discovered file exactly
\* once, in enumeration order and without retry: the counts add up to the
\* number of files, and there are never more sendall calls than files.
C14_EveryFileAttemptedOnce ==
  /\ sendalls <= xml_files
  /\ (summary # NoSummary =>
        LET sends == SelectSeq(ops, IsSendall) IN
        /\ summary.success_file_count + summary.error_count = xml_files
        /\ i = xml_files
        /\ Len(sends) = xml_files
        /\ sendalls = xml_files
        /\ \A k \in 1..Len(sends) : sends[k].f = k)

C14_Witness ==
  /\ summary # NoSummary
  /\ xml_files = 2
  /\ summary.error_count = 2
  /\ sendalls = 2

\* C15: a session opens at most one connection, and a call makes at most one
\* connect; a call on a session that holds a socket connects nothing and reads
\* no banner, the file loop runs on that one connection, and no step replaces
\* a socket the session holds.
C15_OneConnectionNoReconnect ==
  /\ [](Len(closes) <= 1)
  /\ [](pc \in {"count", "loop", "process"} => (Len(closes) = 1 /\ sock = 1))
  /\ [](\A k \in 1..Len(ops) : ops[k].op = "connect" => k = 1)
  /\ [](handshake = "skipped" =>
          \A k \in 1..Len(ops) :
             ops[k].op # "connect" /\ ~(ops[k].op = "recv" /\ ops[k].f = 0))
  /\ [][sock # None => (sock' = sock /\ Len(closes') = Len(closes))]_vars

C15_Witness ==
  /\ calls = 2
  /\ call = "replay"
  /\ handshake = "skipped"
  /\ pc = "loop"
  /\ error_count = 1
  /\ Len(closes) = 1

\* C16: the steps of send_file leave self.sock as it is, whatever the outcome:
\* the socket is neither closed, reset nor replaced, and the next file is sent
\* on the same connection object.
C16_SendFileKeepsConnection ==
  /\ [][(pc = "process" \/ (pc = "loop" /\ i < xml_files)) =>
          (sock' = sock /\ closes' = closes /\ validated' = validated)]_vars
  /\ [](\A k \in 1..Len(ops) : ops[k].f > 0 => ops[k].s = sock)

C16_Witness ==
  /\ pc = "process"
  /\ i = 1
  /\ error_count = 1
  /\ ops[Len(ops)] = [op |-> "sendall", s |-> sock, f |-> 2, closed |-> FALSE]
  /\ ops[Len(ops) - 1].s = sock

\* C17: after the handshake the socket operations alternate one sendall and
\* one recv per file, file after file: the k-th file operation is the sendall
\* (k odd) or the recv (k even) of file (k+1) div 2, and none precedes the
\* handshake.
C17_OneFileInFlight ==
  LET fileOps == SelectSeq(ops, IsFileOp) IN
  /\ \A k \in 1..Len(fileOps) :
        /\ fileOps[k].op = (IF k % 2 = 1 THEN "sendall" ELSE "recv")
        /\ fileOps[k].f = (k + 1) \div 2
  /\ \A k \in 1..Len(ops) : \A j \in 1..Len(ops) :
        (ops[k].f > 0 /\ ops[j].op \in {"connect", "recv"} /\ ops[j].f = 0) => j < k

C17_Witness ==
  /\ Len(SelectSeq(ops, IsFileOp)) = 4
  /\ verdict = "Unexpected"
  /\ i = 2
  /\ error_count = 2
  /\ pc = "loop"

\* C18: no sendall or recv is performed on a socket that was closed before,
\* over any sequence of calls on the session.
C18_NoOperationOnClosedSocket ==
  \A k \in 1..Len(ops) : ops[k].op \in {"sendall", "recv"} => ~ops[k].closed

\* C19: send_file returns a true flag only after the payload was sent and the
\* text received next starts with "+RCLUSTER"; a duration is added to the
\* successful timings only on such a reply, in either mode.
C19_SuccessOnlyOnSuccessReply ==
  /\ [](success_flag =>
          /\ Answered
          /\ startswith(server_response, success_prefix)
          /\ verdict = "Success"
          /\ \E k \in 1..(Len(ops) - 1) :
                /\ ops[k].op = "sendall" /\ ops[k + 1].op = "recv"
                /\ ops[k].f = i /\ ops[k + 1].f = i)
  /\ [](Len(file_times) <= ok_replies)
  /\ [][(file_times' # file_times /\ file_times' # <<>>) =>
          (startswith(server_response', success_prefix)
             /\ ops'[Len(ops')].op = "recv")]_vars

C19_Witness ==
  /\ success_flag
  /\ server_response = <<"+", "R", "C", "L", "U", "S", "T", "E", "R", " ", "O", "K">>
  /\ Len(file_times) = 2
  /\ pc = "loop"

====
